---- MODULE Spec2Model ----
(***************************************************************************)
(* A model of the DPLL satisfiability solver (UnitPropagation,             *)
(* PureLiteralElimination, assign, DPLL, CompleteAssignment, ParseCNF,     *)
(* ValidateCNF, main) and of the negation-pushing step of the CNF          *)
(* converter (pushNegations).                                              *)
(***************************************************************************)
EXTENDS Integers, Sequences, FiniteSets, TLC

VARIABLES
    input,       \* main: the formula cnf that ParseCNF returned
    stack,       \* the active DPLL calls, outermost first; each frame holds the
                 \* call's local cnf, its position and its decision variable
    assignment,  \* the map[int]bool shared by all DPLL calls
    ret,         \* the value the call that returned last handed to its caller
    phase,       \* main's position: "solve", "sat", "unsat"
    stale,       \* history: variables whose value was written in a branch that
                 \* failed and that nothing has written since
    solved,      \* history: the keys of assignment when DPLL returned to main
    fn,          \* the state of the function-level specification SpecFn
    io,          \* the state of the input-handling specification SpecParse
    tr           \* the state of the negation-pushing specification SpecNeg

vars == <<input, stack, assignment, ret, phase, stale, solved, fn, io, tr>>

(***************************************************************************)
(* Bounds of the model.                                                    *)
(***************************************************************************)
\* The variable identifiers of the formulas of the model are 1..MaxVar.
MaxVar == 2

\* The lengths of a clause and the numbers of clauses of those formulas.
ClauseLens == 1..2
ClauseCounts == 0..3

Vars == 1..MaxVar
Literals == {l \in (-MaxVar)..MaxVar : l # 0}

\* Sequences over S with a length in N.
SeqsOf(S, N) == UNION {[1..n -> S] : n \in N}

\* The formulas main may hand to DPLL when the precondition holds: clauses
\* are non-empty, literals are nonzero.
Formulas == SeqsOf(SeqsOf(Literals, ClauseLens), ClauseCounts)

\* All clause sequences, empty clauses included.
AnyFormulas == SeqsOf(SeqsOf(Literals, {0} \cup ClauseLens), ClauseCounts)

(***************************************************************************)
(* Helpers of the solver.                                                  *)
(***************************************************************************)
abs(x) == IF x < 0 THEN -x ELSE x

\* make(map[int]bool)
EmptyAssignment == [k \in {} |-> TRUE]

\* assignment[variable] = value
Put(a, variable, value) ==
    [k \in (DOMAIN a) \cup {variable} |-> IF k = variable THEN value ELSE a[k]]

\* skipClause that forgets the negated literal made true by value = false.
skipClausePositiveOnly(clause, variable, value) ==
    \E i \in 1..Len(clause) : clause[i] = variable /\ value

\* The test of assign's inner loop that sets skipClause.
skipClause(clause, variable, value) ==
    \E i \in 1..Len(clause) :
        \/ clause[i] = variable /\ value
        \/ clause[i] = -variable /\ ~value

\* newClause that keeps the negated literal.
newClauseKeepsNegated(clause, variable, value) ==
    SelectSeq(clause, LAMBDA literal : literal # variable)

\* newClause that drops only the first false literal.
newClauseFirstOnly(clause, variable, value) ==
    IF \E i \in 1..Len(clause) : clause[i] \in {variable, -variable}
    THEN LET i == CHOOSE i \in 1..Len(clause) :
                    /\ clause[i] \in {variable, -variable}
                    /\ \A j \in 1..(i - 1) : clause[j] \notin {variable, -variable}
         IN  SubSeq(clause, 1, i - 1) \o SubSeq(clause, i + 1, Len(clause))
    ELSE clause

\* The literals assign appends to newClause.
newClause(clause, variable, value) ==
    SelectSeq(clause, LAMBDA literal : literal # variable /\ literal # -variable)

assign(cnf, variable, value) ==
    LET kept == SelectSeq(cnf, LAMBDA clause : ~skipClause(clause, variable, value))
    IN  [i \in 1..Len(kept) |-> newClause(kept[i], variable, value)]

\* Index of the first clause of length 1, 0 when there is none.
FirstUnit(cnf) ==
    IF \E i \in 1..Len(cnf) : Len(cnf[i]) = 1
    THEN CHOOSE i \in 1..Len(cnf) :
            /\ Len(cnf[i]) = 1
            /\ \A j \in 1..(i - 1) : Len(cnf[j]) # 1
    ELSE 0

\* One iteration of UnitPropagation's outer loop that found a unit clause.
UnitIter(cnf, a) ==
    LET unit == cnf[FirstUnit(cnf)][1]
        value == unit > 0
        variable == abs(unit)
    IN  [cnf |-> assign(cnf, variable, value),
         assignment |-> Put(a, variable, value),
         variable |-> variable]

\* UnitPropagation's closing scan for an empty clause.
HasEmpty(cnf) == \E i \in 1..Len(cnf) : Len(cnf[i]) = 0

\* UnitPropagation's loop written as a single pass ("if" for "for").
UnitLoopOnce(cnf, a) ==
    IF FirstUnit(cnf) = 0
    THEN [cnf |-> cnf, assignment |-> a]
    ELSE LET s == UnitIter(cnf, a) IN [cnf |-> s.cnf, assignment |-> s.assignment]

RECURSIVE UnitLoop(_, _)
UnitLoop(cnf, a) ==
    IF FirstUnit(cnf) = 0
    THEN [cnf |-> cnf, assignment |-> a]
    ELSE LET s == UnitIter(cnf, a) IN UnitLoop(s.cnf, s.assignment)

UnitPropagation(cnf, a) ==
    LET r == UnitLoop(cnf, a)
    IN  [cnf |-> r.cnf, assignment |-> r.assignment, ok |-> ~HasEmpty(r.cnf)]

\* The places <<clause, position>> that the nested loops over a formula visit.
Occurrences(cnf) == UNION {{<<i, j>> : j \in 1..Len(cnf[i])} : i \in 1..Len(cnf)}

\* literalCount[literal] after PureLiteralElimination's counting loop.
literalCount(cnf, literal) ==
    Cardinality({p \in Occurrences(cnf) : cnf[p[1]][p[2]] = literal})

\* The keys of literalCount.
CountKeys(cnf) == {cnf[p[1]][p[2]] : p \in Occurrences(cnf)}

\* The test "Pure literal found", on the counts of the formula passed in.
IsPure(counted, literal) ==
    literalCount(counted, literal) > 0 /\ literalCount(counted, -literal) = 0

PureKeys(cnf) == {l \in CountKeys(cnf) : IsPure(cnf, l)}

\* The orders in which a range over a map may visit the keys S.  The loop
\* passes over a key that fails the purity test without any effect, and the
\* test reads only the counts made beforehand, so a run of the loop is
\* decided by the order in which it meets the pure keys.
Orders(S) ==
    {s \in [1..Cardinality(S) -> S] : \A i, j \in 1..Cardinality(S) : i # j => s[i] # s[j]}

\* PureLiteralElimination's second loop, visiting the keys in `order`; the
\* counts are those of `counted`, the formula the function received.
RECURSIVE PureLoop(_, _, _, _)
PureLoop(cnf, a, order, counted) ==
    IF order = <<>>
    THEN [cnf |-> cnf, assignment |-> a]
    ELSE LET literal == Head(order)
             value == literal > 0
             variable == abs(literal)
         IN  IF IsPure(counted, literal)
             THEN PureLoop(assign(cnf, variable, value), Put(a, variable, value),
                           Tail(order), counted)
             ELSE PureLoop(cnf, a, Tail(order), counted)

\* PureLiteralElimination run a second time on its own result.
PureLiteralEliminationTwice(cnf, a, order) ==
    LET r == PureLoop(cnf, a, order, cnf)
        again == CHOOSE o \in Orders(PureKeys(r.cnf)) : TRUE
    IN  PureLoop(r.cnf, r.assignment, again, r.cnf)

PureLiteralElimination(cnf, a, order) == PureLoop(cnf, a, order, cnf)

\* DPLL's choice of the variable to branch on; 0 is Go's zero value.
SelectVariable(cnf) ==
    IF \E i \in 1..Len(cnf) : Len(cnf[i]) > 0
    THEN LET i == CHOOSE i \in 1..Len(cnf) :
                    /\ Len(cnf[i]) > 0
                    /\ \A j \in 1..(i - 1) : Len(cnf[j]) = 0
         IN  abs(cnf[i][1])
    ELSE 0

\* "Try assigning true" and "Backtrack and try assigning false".
TryTrue(a, variable) == Put(a, variable, TRUE)

\* Backtracking that forgets to write the value false.
TryFalseNoWrite(a, variable) == a

\* Backtracking that undoes the decision by deleting the key.
TryFalseDelete(a, variable) == [k \in (DOMAIN a) \ {variable} |-> a[k]]

TryFalse(a, variable) == Put(a, variable, FALSE)

\* The variables of a formula.
VarsOf(cnf) == {abs(l) : l \in CountKeys(cnf)}

\* CompleteAssignment that looks at the first literal of each clause only.
CompleteAssignmentFirstLiteral(cnf, a) ==
    LET firsts == {abs(cnf[i][1]) : i \in {n \in 1..Len(cnf) : Len(cnf[n]) > 0}}
    IN  [k \in (DOMAIN a) \cup firsts |-> IF k \in DOMAIN a THEN a[k] ELSE TRUE]

CompleteAssignment(cnf, a) ==
    [k \in (DOMAIN a) \cup VarsOf(cnf) |-> IF k \in DOMAIN a THEN a[k] ELSE TRUE]

(***************************************************************************)
(* The solve of one formula: main's call of DPLL and what follows it.      *)
(***************************************************************************)
NewFrame(f) ==
    [cnf |-> f, arg |-> f, pc |-> "unit", variable |-> 0, iters |-> 0, wrote |-> {}]

\* History: every call still waiting for its true branch notes the writes W.
NoteWrites(stk, W) ==
    [i \in DOMAIN stk |->
        IF stk[i].pc = "tryTrue" THEN [stk[i] EXCEPT !.wrote = @ \cup W] ELSE stk[i]]

Top == stack[Len(stack)]
Pop == SubSeq(stack, 1, Len(stack) - 1)
Running == phase = "solve" /\ Len(stack) > 0

Unused == <<>>

InitSolve ==
    /\ input \in Formulas
    /\ stack = <<NewFrame(input)>>
    /\ assignment = EmptyAssignment
    /\ ret = "none"
    /\ phase = "solve"
    /\ stale = {}
    /\ solved = {}
    /\ fn = Unused /\ io = Unused /\ tr = Unused

UnitStep ==
    /\ Running /\ Top.pc = "unit" /\ FirstUnit(Top.cnf) # 0
    /\ LET s == UnitIter(Top.cnf, assignment)
           n == Len(stack)
       IN  /\ stack' = NoteWrites([stack EXCEPT ![n].cnf = s.cnf, ![n].iters = @ + 1],
                                  {s.variable})
           /\ assignment' = s.assignment
           /\ stale' = stale \ {s.variable}
    /\ UNCHANGED <<input, ret, phase, solved, fn, io, tr>>

UnitConflict ==
    /\ Running /\ Top.pc = "unit" /\ FirstUnit(Top.cnf) = 0
    /\ HasEmpty(Top.cnf)
    /\ stack' = Pop
    /\ ret' = "false"
    /\ UNCHANGED <<input, assignment, phase, stale, solved, fn, io, tr>>

UnitOk ==
    /\ Running /\ Top.pc = "unit" /\ FirstUnit(Top.cnf) = 0
    /\ ~HasEmpty(Top.cnf)
    /\ stack' = [stack EXCEPT ![Len(stack)].pc = "pure"]
    /\ UNCHANGED <<input, assignment, ret, phase, stale, solved, fn, io, tr>>

Pure ==
    /\ Running /\ Top.pc = "pure"
    /\ \E order \in Orders(PureKeys(Top.cnf)) :
          LET r == PureLiteralElimination(Top.cnf, assignment, order)
              W == {abs(l) : l \in PureKeys(Top.cnf)}
              n == Len(stack)
          IN  /\ stack' = NoteWrites([stack EXCEPT ![n].cnf = r.cnf, ![n].pc = "check"], W)
              /\ assignment' = r.assignment
              /\ stale' = stale \ W
    /\ UNCHANGED <<input, ret, phase, solved, fn, io, tr>>

Satisfied ==
    /\ Running /\ Top.pc = "check" /\ Len(Top.cnf) = 0
    /\ stack' = Pop
    /\ ret' = "true"
    /\ UNCHANGED <<input, assignment, phase, stale, solved, fn, io, tr>>

Decide ==
    /\ Running /\ Top.pc = "check" /\ Len(Top.cnf) # 0
    /\ LET variable == SelectVariable(Top.cnf)
           n == Len(stack)
           me == [Top EXCEPT !.pc = "tryTrue", !.variable = variable, !.wrote = {}]
       IN  /\ assignment' = TryTrue(assignment, variable)
           /\ stack' = Append(NoteWrites([stack EXCEPT ![n] = me], {variable}),
                              NewFrame(assign(Top.cnf, variable, TRUE)))
           /\ stale' = stale \ {variable}
    /\ UNCHANGED <<input, ret, phase, solved, fn, io, tr>>

ReturnTrue ==
    /\ Running /\ Top.pc = "tryTrue" /\ ret = "true"
    /\ stack' = Pop
    /\ UNCHANGED <<input, assignment, ret, phase, stale, solved, fn, io, tr>>

Backtrack ==
    /\ Running /\ Top.pc = "tryTrue" /\ ret = "false"
    /\ LET variable == Top.variable
           n == Len(stack)
       IN  /\ assignment' = TryFalse(assignment, variable)
           /\ stack' = Append(NoteWrites([stack EXCEPT ![n].pc = "tryFalse"], {variable}),
                              NewFrame(assign(Top.cnf, variable, FALSE)))
           /\ stale' = (stale \cup Top.wrote) \ {variable}
    /\ ret' = "none"
    /\ UNCHANGED <<input, phase, solved, fn, io, tr>>

ReturnSibling ==
    /\ Running /\ Top.pc = "tryFalse" /\ ret # "none"
    /\ stack' = Pop
    /\ UNCHANGED <<input, assignment, ret, phase, stale, solved, fn, io, tr>>

ReportSat ==
    /\ phase = "solve" /\ Len(stack) = 0 /\ ret = "true"
    /\ assignment' = CompleteAssignment(input, assignment)
    /\ phase' = "sat"
    /\ solved' = DOMAIN assignment
    /\ UNCHANGED <<input, stack, ret, stale, fn, io, tr>>

ReportUnsat ==
    /\ phase = "solve" /\ Len(stack) = 0 /\ ret = "false"
    /\ phase' = "unsat"
    /\ solved' = DOMAIN assignment
    /\ UNCHANGED <<input, stack, assignment, ret, stale, fn, io, tr>>

Next ==
    \/ UnitStep \/ UnitConflict \/ UnitOk \/ Pure \/ Satisfied \/ Decide
    \/ ReturnTrue \/ Backtrack \/ ReturnSibling \/ ReportSat \/ ReportUnsat

Spec == InitSolve /\ [][Next]_vars

\* DPLL runs to completion once called: nothing suspends it.
SpecFair == Spec /\ WF_vars(Next)

(***************************************************************************)
(* The simplifier's functions on their own: assign, UnitPropagation and    *)
(* PureLiteralElimination applied to any clause sequence (empty clauses,   *)
(* repeated literals and tautologies included) and a caller's assignment.  *)
(***************************************************************************)
StartAssignments == {EmptyAssignment, [k \in Vars |-> TRUE], [k \in Vars |-> FALSE]}

InitFn ==
    /\ fn \in [op : {"input"}, f : AnyFormulas, a : StartAssignments,
               variable : {0}, value : {FALSE}, out : {<<>>}, again : {<<>>},
               ok : {TRUE}, after : {EmptyAssignment}]
    /\ input = <<>> /\ stack = <<>> /\ assignment = EmptyAssignment
    /\ ret = "none" /\ phase = "fn" /\ stale = {} /\ solved = {}
    /\ io = Unused /\ tr = Unused

\* assign(f, v, b), and assign applied to its own result.
FnAssign ==
    /\ fn.op = "input"
    /\ \E variable \in Vars, value \in BOOLEAN :
          fn' = [fn EXCEPT !.op = "assign", !.variable = variable, !.value = value,
                           !.out = assign(fn.f, variable, value),
                           !.again = assign(assign(fn.f, variable, value), variable, value)]
    /\ UNCHANGED <<input, stack, assignment, ret, phase, stale, solved, io, tr>>

FnUnit ==
    /\ fn.op = "input"
    /\ LET r == UnitPropagation(fn.f, fn.a)
       IN  fn' = [fn EXCEPT !.op = "unit", !.out = r.cnf, !.ok = r.ok,
                            !.after = r.assignment]
    /\ UNCHANGED <<input, stack, assignment, ret, phase, stale, solved, io, tr>>

FnPure ==
    /\ fn.op = "input"
    /\ \E order \in Orders(PureKeys(fn.f)) :
          LET r == PureLiteralElimination(fn.f, fn.a, order)
          IN  fn' = [fn EXCEPT !.op = "pure", !.out = r.cnf, !.after = r.assignment]
    /\ UNCHANGED <<input, stack, assignment, ret, phase, stale, solved, io, tr>>

NextFn == FnAssign \/ FnUnit \/ FnPure

SpecFn == InitFn /\ [][NextFn]_vars

(***************************************************************************)
(* main's handling of one line of input: ValidateCNF, then ParseCNF.  A    *)
(* text is a sequence of symbols; the words OR and AND are one symbol      *)
(* each, every other symbol is one character.                              *)
(***************************************************************************)
MaxPieces == 6

OrSep == <<" ", "OR", " ">>
AndSep == <<" ", "AND", " ">>

\* What the user may type next.
Pieces == {<<"(">>, <<")">>, <<" ">>, <<"0">>, <<"1">>, <<"-">>, OrSep, AndSep}

\* Go's strings.Trim(s, cutset) and strings.TrimSpace(s).
Trim(s, cutset) ==
    IF \A i \in 1..Len(s) : s[i] \in cutset
    THEN <<>>
    ELSE LET lo == CHOOSE i \in 1..Len(s) :
                        s[i] \notin cutset /\ \A j \in 1..(i - 1) : s[j] \in cutset
             hi == CHOOSE i \in 1..Len(s) :
                        s[i] \notin cutset /\ \A j \in (i + 1)..Len(s) : s[j] \in cutset
         IN  SubSeq(s, lo, hi)

TrimSpace(s) == Trim(s, {" "})

\* Go's strings.Split(s, sep) for a non-empty sep.
RECURSIVE Split(_, _)
Split(s, sep) ==
    LET at == {i \in 1..(Len(s) - Len(sep) + 1) : SubSeq(s, i, i + Len(sep) - 1) = sep}
    IN  IF at = {}
        THEN <<s>>
        ELSE LET i == CHOOSE i \in at : \A j \in at : i <= j
             IN  <<SubSeq(s, 1, i - 1)>> \o Split(SubSeq(s, i + Len(sep), Len(s)), sep)

DigitValue(c) == IF c = "1" THEN 1 ELSE 0

RECURSIVE Decimal(_)
Decimal(s) ==
    IF s = <<>> THEN 0
    ELSE 10 * Decimal(SubSeq(s, 1, Len(s) - 1)) + DigitValue(s[Len(s)])

\* Go's strconv.Atoi: an optional sign, then one or more decimal digits;
\* on an error the number is 0.
Atoi(s) ==
    LET signed == Len(s) > 0 /\ s[1] = "-"
        digits == IF signed THEN Tail(s) ELSE s
        ok == Len(digits) > 0 /\ \A i \in 1..Len(digits) : digits[i] \in {"0", "1"}
    IN  [ok |-> ok,
         num |-> IF ~ok THEN 0 ELSE IF signed THEN -Decimal(digits) ELSE Decimal(digits)]

ValidateCNF(text) ==
    LET clauses == Split(text, AndSep)
    IN  \A n \in 1..Len(clauses) :
            LET clause == TrimSpace(clauses[n])
            IN  /\ ~(Len(clause) < 2 \/ clause[1] # "(" \/ clause[Len(clause)] # ")")
                /\ LET literals == Split(SubSeq(clause, 2, Len(clause) - 1), OrSep)
                   IN  /\ Len(literals) # 0
                       /\ \A m \in 1..Len(literals) : Atoi(TrimSpace(literals[m])).ok

ParseCNF(text) ==
    LET clauses == Split(text, AndSep)
    IN  [n \in 1..Len(clauses) |->
            LET literals == Split(Trim(clauses[n], {"(", ")", " "}), OrSep)
            IN  [m \in 1..Len(literals) |-> Atoi(TrimSpace(literals[m])).num]]

InitParse ==
    /\ io = [phase |-> "typing", text |-> <<>>, pieces |-> 0, cnf |-> <<>>]
    /\ input = <<>> /\ stack = <<>> /\ assignment = EmptyAssignment
    /\ ret = "none" /\ phase = "read" /\ stale = {} /\ solved = {}
    /\ fn = Unused /\ tr = Unused

\* The user types on.
Type ==
    /\ io.phase = "typing" /\ io.pieces < MaxPieces
    /\ \E piece \in Pieces :
          io' = [io EXCEPT !.text = @ \o piece, !.pieces = @ + 1]
    /\ UNCHANGED <<input, stack, assignment, ret, phase, stale, solved, fn, tr>>

\* The line is read, trimmed and found invalid.
Reject ==
    /\ io.phase = "typing"
    /\ ~ValidateCNF(TrimSpace(io.text))
    /\ io' = [io EXCEPT !.phase = "invalid"]
    /\ UNCHANGED <<input, stack, assignment, ret, phase, stale, solved, fn, tr>>

\* The line is read, trimmed, found valid and parsed into the formula that
\* main passes to DPLL.
Accept ==
    /\ io.phase = "typing"
    /\ ValidateCNF(TrimSpace(io.text))
    /\ io' = [io EXCEPT !.phase = "parsed", !.cnf = ParseCNF(TrimSpace(io.text))]
    /\ UNCHANGED <<input, stack, assignment, ret, phase, stale, solved, fn, tr>>

NextParse == Type \/ Reject \/ Accept

SpecParse == InitParse /\ [][NextParse]_vars

(***************************************************************************)
(* The negation-pushing step of the CNF converter, on syntax trees built   *)
(* from variable leaves and the connectives !, & and |.                    *)
(***************************************************************************)
MaxDepth == 2

Nil == [Value |-> "nil"]
Node(value, left, right) == [Value |-> value, Left |-> left, Right |-> right]

Leaves == {Node(x, Nil, Nil) : x \in {"A", "B"}}

RECURSIVE Trees(_)
Trees(d) ==
    IF d = 0 THEN Leaves
    ELSE LET T == Trees(d - 1)
         IN  T \cup {Node("!", t, Nil) : t \in T}
               \cup {Node(op, l, r) : op \in {"&", "|"}, l \in T, r \in T}

RECURSIVE pushNegations(_)
pushNegations(node) ==
    IF node = Nil THEN Nil
    ELSE IF node.Value = "!"
    THEN IF node.Left # Nil /\ (node.Left.Value = "&" \/ node.Left.Value = "|")
         THEN LET op == IF node.Left.Value = "&" THEN "&" ELSE "|"
              IN  Node(op, pushNegations(Node("!", node.Left.Left, Nil)),
                           pushNegations(Node("!", node.Left.Right, Nil)))
         ELSE IF node.Left # Nil /\ node.Left.Value = "!"
         THEN pushNegations(node.Left.Left)
         ELSE node
    ELSE Node(node.Value, pushNegations(node.Left), pushNegations(node.Right))

InitNeg ==
    /\ tr \in [op : {"input"}, node : Trees(MaxDepth), out : {Nil}]
    /\ input = <<>> /\ stack = <<>> /\ assignment = EmptyAssignment
    /\ ret = "none" /\ phase = "cnf" /\ stale = {} /\ solved = {}
    /\ fn = Unused /\ io = Unused

\* toCNF's second step.
PushNegations ==
    /\ tr.op = "input"
    /\ tr' = [tr EXCEPT !.op = "pushed", !.out = pushNegations(tr.node)]
    /\ UNCHANGED <<input, stack, assignment, ret, phase, stale, solved, fn, io>>

NextNeg == PushNegations

SpecNeg == InitNeg /\ [][NextNeg]_vars

(***************************************************************************)
(* What the claims are stated in: the meaning of a formula, said without   *)
(* the solver's own functions.                                             *)
(***************************************************************************)
LitsIn(f) == UNION {{f[i][j] : j \in 1..Len(f[i])} : i \in 1..Len(f)}
VarsIn(f) == {IF l < 0 THEN -l ELSE l : l \in LitsIn(f)}

\* Clause c has a literal whose polarity is a's value for its variable.
ClauseTrue(c, a) ==
    \E j \in 1..Len(c) :
        LET x == IF c[j] < 0 THEN -c[j] ELSE c[j]
        IN  x \in DOMAIN a /\ a[x] = (c[j] > 0)

Satisfies(a, f) == \A i \in 1..Len(f) : ClauseTrue(f[i], a)

Satisfiable(f) == \E a \in [VarsIn(f) -> BOOLEAN] : Satisfies(a, f)

\* C1 (soundness): when DPLL, started with an empty assignment on a formula
\* of non-empty clauses and nonzero literals, returned true and main completed
\* the assignment, every clause of the input has a literal whose polarity is
\* the final assignment's value for its variable.
C1_Soundness == phase = "sat" => Satisfies(assignment, input)

\* C1's case: a SAT answer whose assignment still carries a value written in
\* a branch that failed.
C1_Witness == phase = "sat" /\ stale # {}

\* C2 (completeness): when DPLL returned false, no total assignment of the
\* formula's variables satisfies every clause.
C2_Completeness == phase = "unsat" => ~Satisfiable(input)

\* C2's case: an UNSAT answer reached after backtracking out of a branch
\* that had propagated a value.
C2_Witness == phase = "unsat" /\ stale # {}

\* C6 (totality of completion): after a SAT answer and CompleteAssignment,
\* every variable of the input formula is a key of the final assignment.
C6_Totality == phase = "sat" => VarsIn(input) \subseteq DOMAIN assignment

\* C6's case: the search ended without ever writing some variable of the
\* input, which completion then added.
C6_Witness == phase = "sat" /\ VarsIn(input) \ solved # {}

\* The number of distinct variables of a formula.
NumVars(f) == Cardinality(VarsIn(f))

\* The recursion is well-founded: a recursive call's formula has fewer
\* variables than its caller's, the recursion depth (the calls below main's)
\* is at most the number of variables of the input, and a call's
\* unit-propagation loop has made no more iterations than its formula has
\* variables.
Recursion ==
    /\ \A i \in 1..(Len(stack) - 1) : NumVars(stack[i + 1].arg) < NumVars(stack[i].arg)
    /\ Len(stack) - 1 <= NumVars(input)
    /\ \A i \in 1..Len(stack) : stack[i].iters <= NumVars(stack[i].arg)

\* C3 (termination): the top-level DPLL call eventually returns true or
\* false; each recursive call receives a formula with strictly fewer distinct
\* variables than its caller received, so the recursion depth never exceeds
\* the number of distinct variables of the input; and the unit-propagation
\* loop of each call ends after finitely many iterations.
C3_Termination == <>(Len(stack) = 0 /\ ret \in {"true", "false"}) /\ []Recursion

\* C3's case: the recursion is as deep as the input has variables.
C3_Witness == NumVars(input) = MaxVar /\ Len(stack) - 1 = NumVars(input)

\* A step that starts the call for the sibling value false.
SiblingStarts == Running /\ Top.pc = "tryTrue" /\ ret = "false" /\ stack' # stack

\* No key of the shared assignment is ever removed.
NeverRemoved == DOMAIN assignment \subseteq DOMAIN assignment'

\* Once a call has returned true the search writes nothing, and what follows
\* (the completion) changes no value already there.
NoWriteAfterTrue ==
    ret = "true" =>
        /\ Len(stack) > 0 => assignment' = assignment
        /\ \A k \in DOMAIN assignment : k \in DOMAIN assignment' /\ assignment'[k] = assignment[k]

\* C4 as stated: when the call for the value true of a decision variable
\* returned false, every variable written during that failed branch has been
\* overwritten, and none removed, when the call for the sibling value false
\* starts; and once a call has returned true no variable is written again.
C4_AsStated ==
    [][/\ SiblingStarts => Top.wrote \cap stale' = {}
       /\ NeverRemoved
       /\ NoWriteAfterTrue]_vars

\* C4 as amended: when the call for the value true of a decision variable
\* returned false, the decision variable alone is overwritten (with false)
\* before the call for the sibling value false starts; every other variable
\* written during the failed branch is still in the map with the value the
\* failed branch left; no key is ever removed; and once a call has returned
\* true no variable is written again.
C4_OverwriteProtocol ==
    [][/\ SiblingStarts =>
            /\ Top.variable \in DOMAIN assignment' /\ assignment'[Top.variable] = FALSE
            /\ \A x \in Top.wrote \ {Top.variable} :
                    x \in DOMAIN assignment /\ x \in DOMAIN assignment'
                        /\ assignment'[x] = assignment[x]
       /\ NeverRemoved
       /\ NoWriteAfterTrue]_vars

\* C4's case: a sibling call was started while a variable written by the
\* failed branch kept its value, nothing wrote it afterwards, and the search
\* then returned true up to main.
C4_Witness == ret = "true" /\ Len(stack) = 0 /\ stale # {} /\ phase = "solve"

\* C5 (unit propagation fixed point): the formula UnitPropagation returns has
\* no clause of length 1, and the flag it returns is false exactly when that
\* formula has an empty clause.
C5_UnitFixedPoint ==
    fn.op = "unit" =>
        /\ \A i \in 1..Len(fn.out) : Len(fn.out[i]) # 1
        /\ (fn.ok = FALSE) <=> (<<>> \in {fn.out[i] : i \in 1..Len(fn.out)})

\* C5's case: propagation went through a chain of at least two unit clauses,
\* the second one made by the first, and ended without conflict.
C5_Witness ==
    /\ fn.op = "unit" /\ fn.ok
    /\ Cardinality({i \in 1..Len(fn.f) : Len(fn.f[i]) = 1}) = 1
    /\ Cardinality(DOMAIN fn.after) = MaxVar /\ fn.a = EmptyAssignment

\* C7 (idempotence of assign): assign(assign(f, v, b), v, b) is the same
\* sequence of clauses as assign(f, v, b).
C7_Idempotence == fn.op = "assign" => fn.again = fn.out

\* C7's case: the variable occurs twice in a clause that assign keeps, in a
\* formula that also has an empty clause and a tautology.
C7_Witness ==
    /\ fn.op = "assign" /\ fn.out # fn.f /\ <<>> \in {fn.f[i] : i \in 1..Len(fn.f)}
    /\ \E i \in 1..Len(fn.f) : Len(fn.f[i]) = 2 /\ fn.f[i][1] = -fn.f[i][2]
    /\ \E i \in 1..Len(fn.f) :
          /\ Len(fn.f[i]) = 2 /\ fn.f[i][1] = fn.f[i][2]
          /\ fn.f[i][1] = (IF fn.value THEN -fn.variable ELSE fn.variable)

\* A literal that occurs in f while its negation does not.
PureIn(f, l) == l \in LitsIn(f) /\ (-l) \notin LitsIn(f)

\* C9 (pure-literal elimination is a single pass): for a formula without
\* empty clauses, PureLiteralElimination returns exactly the input clauses
\* that contain no literal pure in the input, in their order and unchanged
\* (so no empty clause, and no elimination of a literal that became pure
\* during the pass), and records |l| -> (l > 0) for every literal l pure in the
\* input, leaving the other entries alone; whatever the order in which the
\* count map is enumerated.
C9_PureSinglePass ==
    (fn.op = "pure" /\ <<>> \notin {fn.f[i] : i \in 1..Len(fn.f)}) =>
        /\ fn.out = SelectSeq(fn.f, LAMBDA c : \A j \in 1..Len(c) : ~PureIn(fn.f, c[j]))
        /\ <<>> \notin {fn.out[i] : i \in 1..Len(fn.out)}
        /\ DOMAIN fn.after = (DOMAIN fn.a) \cup {IF l < 0 THEN -l ELSE l : l \in {k \in LitsIn(fn.f) : PureIn(fn.f, k)}}
        /\ \A l \in LitsIn(fn.f) : PureIn(fn.f, l) => fn.after[IF l < 0 THEN -l ELSE l] = (l > 0)
        /\ \A k \in DOMAIN fn.a : (k \notin VarsIn(fn.f) \/ (~PureIn(fn.f, k) /\ ~PureIn(fn.f, -k)))
                                    => fn.after[k] = fn.a[k]

\* C9's case: the pass removed a clause, and a literal of a clause it kept
\* became pure by that and was left in place.
C9_Witness ==
    /\ fn.op = "pure" /\ <<>> \notin {fn.f[i] : i \in 1..Len(fn.f)}
    /\ fn.out # <<>> /\ fn.out # fn.f
    /\ \E l \in LitsIn(fn.out) : PureIn(fn.out, l)

\* C8 (validation guarantees the solver's precondition): the formula built
\* by ParseCNF from a text that ValidateCNF accepted has only non-empty
\* clauses and only nonzero literals.
C8_ValidatedPrecondition ==
    io.phase = "parsed" =>
        \A n \in 1..Len(io.cnf) :
            Len(io.cnf[n]) > 0 /\ \A m \in 1..Len(io.cnf[n]) : io.cnf[n][m] # 0

\* The truth value of a syntax tree under an assignment of its variables.
RECURSIVE Eval(_, _)
Eval(t, env) ==
    IF t.Value = "!" THEN ~Eval(t.Left, env)
    ELSE IF t.Value = "&" THEN Eval(t.Left, env) /\ Eval(t.Right, env)
    ELSE IF t.Value = "|" THEN Eval(t.Left, env) \/ Eval(t.Right, env)
    ELSE env[t.Value]

\* C10 (negation pushing preserves meaning): the tree pushNegations returns
\* has the truth value of its input under every assignment of the variables.
C10_PushPreservesMeaning ==
    tr.op = "pushed" =>
        \A env \in [{"A", "B"} -> BOOLEAN] : Eval(tr.out, env) = Eval(tr.node, env)

====
